---- MODULE Spec2Model ----
(***************************************************************************)
(* Model of stock_dashboard.py: one Streamlit process that re-runs main()  *)
(* (a rendering cycle) any number of times over a CSV file on disk, with   *)
(* load_data() memoized by @st.cache_data.                                 *)
(*                                                                         *)
(* Units: prices are integers in mills (1/1000 USD); PE ratio, market cap  *)
(* and dividend yield are integers in hundredths.  An optional value is a  *)
(* sequence of length 0 (unset) or 1 (set).                                *)
(***************************************************************************)
EXTENDS Integers, Sequences, FiniteSets

VARIABLES
    file,                 \* Updated_Stock_Split_Analysis.csv on disk (optional frame)
    cache,                \* the st.cache_data entry of load_data (optional frame)
    first_load,           \* history: result of the first successful load since the cache was last empty
    pc,                   \* position of the current run of main()
    error,                \* exception that ended the current run
    load_calls,           \* calls of load_data() made by the current run
    prev_stopped,         \* history: the run before the current one stopped on a missing source
    data,                 \* main: data
    company_count_shown,  \* main: the 'Companies Analyzed' value rendered
    recommend_count,      \* main: recommend_count
    avg_price,            \* main: avg_price, as [sum, count] (0/0 is NaN)
    max_price,            \* main: max_price
    max_ticker,           \* main: max_ticker
    data_sorted,          \* main: data_sorted
    colors,               \* main: colors
    comparison_data,      \* main: comparison_data / comp_df
    cards,                \* main: the company cards rendered
    display_df            \* main: display_df

envVars == <<file>>
memoVars == <<cache, first_load>>
outVars == <<company_count_shown, recommend_count, avg_price, max_price, max_ticker,
             data_sorted, colors, comparison_data, cards, display_df>>
vars == <<file, cache, first_load, pc, error, load_calls, prev_stopped, data,
          company_count_shown, recommend_count, avg_price, max_price, max_ticker,
          data_sorted, colors, comparison_data, cards, display_df>>

None == <<>>
Some(v) == <<v>>

----------------------------------------------------------------------------
(* Bounds of the model. *)

\* most rows of a varied or shaped file
MaxRows == 2
\* most rows of a uniform file
MaxWide == 6

----------------------------------------------------------------------------
(* The input: CSV files the program may find on disk. *)

AllColumns ==
    {"Ticker", "Company", "Price_USD", "PE_Ratio", "Market_Cap_Billions",
     "Dividend_Yield", "Split_Recommendation", "Price_After_10to1",
     "Price_After_20to1"}

DerivedColumns == {"Price_After_10to1", "Price_After_20to1"}

Tickers == <<"AMZN", "NFLX", "JPM", "KO", "JNJ", "T6", "T7", "T8">>
Companies == <<"Amazon", "Netflix", "JPMorgan", "Coca-Cola", "J&J", "Company6",
               "Company7", "Company8">>

\* 62.50 USD and 3584.00 USD
Prices == {62500, 3584000}
Recommendations == {"YES", "NO"}

\* the i-th row of a file; basis is the price its derived columns were computed from
FileRow(i, price, rec, basis) ==
    [Ticker |-> Tickers[i], Company |-> Companies[i], Price_USD |-> price,
     PE_Ratio |-> 1525 + 1000 * i, Market_Cap_Billions |-> 25050 * i,
     Dividend_Yield |-> 25 * (i - 1), Split_Recommendation |-> rec,
     Price_After_10to1 |-> basis \div 10, Price_After_20to1 |-> basis \div 20]

Project(row, cols) == [c \in cols |-> row[c]]

\* every file of up to MaxRows rows with all nine columns, the derived columns
\* computed from the price
VariedFiles ==
    UNION {
      { [columns |-> AllColumns,
         rows |-> [i \in 1..n |-> FileRow(i, p[i], r[i], p[i])]]
        : p \in [1..n -> Prices], r \in [1..n -> Recommendations] }
      : n \in 0..MaxRows }

\* the i-th row of the sample portfolio: expensive and recommended, or cheap and not
SampleRow(i, stale) ==
    LET price == IF i % 2 = 1 THEN 3584000 ELSE 62500
    IN  FileRow(i, price, IF i % 2 = 1 THEN "YES" ELSE "NO",
                IF stale THEN 2 * price ELSE price)

\* other shapes of file: derived columns computed from an older price (twice the
\* price), the seven-column input contract without derived columns, and a file
\* without PE_Ratio
Shapes ==
    {[drop |-> {}, stale |-> TRUE],
     [drop |-> DerivedColumns, stale |-> FALSE],
     [drop |-> {"PE_Ratio"}, stale |-> FALSE]}

ShapedFiles ==
    { [columns |-> AllColumns \ v.drop,
       rows |-> [i \in 1..n |-> Project(SampleRow(i, v.stale), AllColumns \ v.drop)]]
      : n \in 0..MaxRows, v \in Shapes }

\* longer files: distinct prices, one recommendation for every row
UniformFiles ==
    { [columns |-> AllColumns,
       rows |-> [i \in 1..n |-> FileRow(i, 100000 * i, rec, 100000 * i)]]
      : n \in (MaxRows + 1)..MaxWide, rec \in Recommendations }

Files == VariedFiles \cup ShapedFiles \cup UniformFiles

----------------------------------------------------------------------------
(* pandas operations used by the script. *)

\* pd.read_csv: the frame holds the columns and rows the file holds
ReadCsv(f) == [columns |-> f.columns, rows |-> f.rows]

HasCols(frame, cols) == cols \subseteq frame.columns

Column(frame, c) == [i \in 1..Len(frame.rows) |-> frame.rows[i][c]]

RECURSIVE SumSeq(_)
SumSeq(s) == IF s = <<>> THEN 0 ELSE s[1] + SumSeq(Tail(s))

\* Series.mean(): sum over count; 0/0 stands for NaN
Mean(s) == [sum |-> SumSeq(s), count |-> Len(s)]

\* Series.max() of a non-empty series
SeriesMax(s) == CHOOSE m \in {s[i] : i \in 1..Len(s)} : \A j \in 1..Len(s) : s[j] <= m

IdxMaxLast(s) ==
    CHOOSE i \in 1..Len(s) :
        /\ s[i] = SeriesMax(s)
        /\ \A j \in (i + 1)..Len(s) : s[j] # s[i]

\* Series.idxmax() of a non-empty series: the label of the first occurrence of the maximum
IdxMax(s) ==
    CHOOSE i \in 1..Len(s) :
        /\ s[i] = SeriesMax(s)
        /\ \A j \in 1..(i - 1) : s[j] # s[i]

\* the orders in which sort_values(ascending=True) may leave the row labels in I:
\* ascending by key, rows with equal keys in any order (quicksort is not stable)
RECURSIVE SortedOrders(_, _)
SortedOrders(keys, I) ==
    IF I = {} THEN {<<>>}
    ELSE UNION { { <<i>> \o rest : rest \in SortedOrders(keys, I \ {i}) }
                 : i \in { k \in I : \A j \in I : keys[k] <= keys[j] } }

\* DataFrame.sort_values('Price_USD', ascending=True): a new frame
SortValues(frame) ==
    { [columns |-> frame.columns,
       rows |-> [k \in 1..Len(frame.rows) |-> frame.rows[o[k]]]]
      : o \in SortedOrders(Column(frame, "Price_USD"), 1..Len(frame.rows)) }

----------------------------------------------------------------------------
(* Formatting. *)

\* x / d rounded to an integer, halves to even, as format() rounds
RoundHalfEven(x, d) ==
    LET q == x \div d
        r == x % d
    IN  IF 2 * r < d THEN q
        ELSE IF 2 * r > d THEN q + 1
        ELSE IF q % 2 = 0 THEN q ELSE q + 1

\* f"${x:,.2f}" of a price in mills: a dollar amount in cents
Money2(x) == [unit |-> "$cents", amount |-> RoundHalfEven(x, 10)]
\* f"{x:.1f}" of a value in hundredths: tenths
Fixed1(x) == [unit |-> "tenths", amount |-> RoundHalfEven(x, 10)]
\* f"${x:.1f}B"
Billions1(x) == [unit |-> "$tenthsB", amount |-> RoundHalfEven(x, 10)]
\* f"{x:.2f}%"
Percent2(x) == [unit |-> "hundredths%", amount |-> x]

----------------------------------------------------------------------------
(* The script. *)

Init ==
    /\ file \in {None} \cup {Some(f) : f \in Files}
    /\ cache = None
    /\ first_load = None
    /\ prev_stopped = FALSE
    /\ pc = "idle"
    /\ error = "none"
    /\ load_calls = 0
    /\ data = None
    /\ company_count_shown = None
    /\ recommend_count = None
    /\ avg_price = None
    /\ max_price = None
    /\ max_ticker = None
    /\ data_sorted = None
    /\ colors = None
    /\ comparison_data = None
    /\ cards = None
    /\ display_df = None

\* Streamlit runs main() from the top: at start-up and on every rerun
StartRun ==
    /\ pc \in {"idle", "done", "stopped", "crashed"}
    /\ pc' = "load"
    /\ error' = "none"
    /\ load_calls' = 0
    /\ prev_stopped' = (pc = "stopped")
    /\ data' = None
    /\ company_count_shown' = None
    /\ recommend_count' = None
    /\ avg_price' = None
    /\ max_price' = None
    /\ max_ticker' = None
    /\ data_sorted' = None
    /\ colors' = None
    /\ comparison_data' = None
    /\ cards' = None
    /\ display_df' = None
    /\ UNCHANGED <<envVars, memoVars>>

load_data_uncached ==
    IF file = None
    THEN [raised |-> "FileNotFoundError", frame |-> None, cache |-> cache]
    ELSE [raised |-> "none", frame |-> Some(ReadCsv(file[1])),
          cache |-> Some(ReadCsv(file[1]))]

\* @st.cache_data def load_data(): a memoized value is returned (as a copy)
\* without reading; a raised exception is not memoized
load_data ==
    IF cache # None
    THEN [raised |-> "none", frame |-> cache, cache |-> cache]
    ELSE IF file = None
    THEN [raised |-> "FileNotFoundError", frame |-> None, cache |-> cache]
    ELSE [raised |-> "none", frame |-> Some(ReadCsv(file[1])),
          cache |-> Some(ReadCsv(file[1]))]

\* an uncaught exception ends the run
Raise(e) ==
    /\ pc' = "crashed"
    /\ error' = e


\* the except branch falls back to an empty frame instead of stopping the run
LoadNoStop ==
    /\ pc = "load"
    /\ load_calls' = load_calls + 1
    /\ LET r == load_data
       IN  /\ cache' = r.cache
           /\ pc' = "kpi1"
           /\ IF r.raised = "none"
              THEN /\ data' = r.frame
                   /\ error' = "none"
                   /\ first_load' = IF first_load = None THEN r.frame ELSE first_load
              ELSE /\ data' = Some([columns |-> AllColumns, rows |-> <<>>])
                   /\ error' = r.raised
                   /\ first_load' = first_load
    /\ UNCHANGED <<envVars, prev_stopped, outVars>>

\* main, lines 62-67: data = load_data(); on FileNotFoundError st.error and st.stop
Load ==
    /\ pc = "load"
    /\ load_calls' = load_calls + 1
    /\ LET r == load_data
       IN  /\ cache' = r.cache
           /\ IF r.raised = "none"
              THEN /\ data' = r.frame
                   /\ pc' = "kpi1"
                   /\ error' = "none"
                   /\ first_load' = IF first_load = None THEN r.frame ELSE first_load
              ELSE /\ data' = None
                   /\ pc' = "stopped"
                   /\ error' = r.raised
                   /\ first_load' = first_load
    /\ UNCHANGED <<envVars, prev_stopped, outVars>>

\* the literal rendered as the 'Companies Analyzed' value
CompaniesAnalyzed == 5

\* main, lines 72-78: the first metric card
Kpi1 ==
    /\ pc = "kpi1"
    /\ company_count_shown' = Some(CompaniesAnalyzed)
    /\ pc' = "kpi2"
    /\ UNCHANGED <<envVars, memoVars, error, load_calls, prev_stopped, data, recommend_count,
                   avg_price, max_price, max_ticker, data_sorted, colors,
                   comparison_data, cards, display_df>>

\* len(data[data['Split_Recommendation'] == 'YES'])
RecommendCount(frame) ==
    Cardinality({i \in 1..Len(frame.rows) : frame.rows[i].Split_Recommendation = "YES"})

\* main, lines 80-87
Kpi2 ==
    /\ pc = "kpi2"
    /\ IF HasCols(data[1], {"Split_Recommendation"})
       THEN /\ recommend_count' = Some(RecommendCount(data[1]))
            /\ pc' = "kpi3"
            /\ error' = error
       ELSE /\ Raise("KeyError")
            /\ recommend_count' = recommend_count
    /\ UNCHANGED <<envVars, memoVars, load_calls, prev_stopped, data, company_count_shown,
                   avg_price, max_price, max_ticker, data_sorted, colors,
                   comparison_data, cards, display_df>>

\* main, lines 89-96
Kpi3 ==
    /\ pc = "kpi3"
    /\ IF HasCols(data[1], {"Price_USD"})
       THEN /\ avg_price' = Some(Mean(Column(data[1], "Price_USD")))
            /\ pc' = "kpi4"
            /\ error' = error
       ELSE /\ Raise("KeyError")
            /\ avg_price' = avg_price
    /\ UNCHANGED <<envVars, memoVars, load_calls, prev_stopped, data, company_count_shown,
                   recommend_count, max_price, max_ticker, data_sorted, colors,
                   comparison_data, cards, display_df>>

\* main, lines 98-106: idxmax of an empty series raises ValueError
Kpi4 ==
    /\ pc = "kpi4"
    /\ IF ~HasCols(data[1], {"Price_USD"})
       THEN /\ Raise("KeyError")
            /\ UNCHANGED <<max_price, max_ticker>>
       ELSE IF Len(data[1].rows) = 0
       THEN /\ Raise("ValueError")
            /\ UNCHANGED <<max_price, max_ticker>>
       ELSE IF ~HasCols(data[1], {"Ticker"})
       THEN /\ Raise("KeyError")
            /\ UNCHANGED <<max_price, max_ticker>>
       ELSE /\ max_price' = Some(SeriesMax(Column(data[1], "Price_USD")))
            /\ max_ticker' =
                 Some(data[1].rows[IdxMax(Column(data[1], "Price_USD"))].Ticker)
            /\ pc' = "chart1"
            /\ error' = error
    /\ UNCHANGED <<envVars, memoVars, load_calls, prev_stopped, data, company_count_shown,
                   recommend_count, avg_price, data_sorted, colors,
                   comparison_data, cards, display_df>>

\* ['#27ae60' if x == 'YES' else '#3498db' for x in data_sorted['Split_Recommendation']]
BarColors(frame) ==
    [i \in 1..Len(frame.rows) |->
        IF frame.rows[i].Split_Recommendation = "YES" THEN "#27ae60" ELSE "#3498db"]

\* data.sort_values(..., inplace=True): the sort reorders data itself
Chart1InPlace ==
    /\ pc = "chart1"
    /\ IF HasCols(data[1], {"Price_USD", "Split_Recommendation", "Ticker"})
       THEN /\ \E s \in SortValues(data[1]) :
                 /\ data_sorted' = Some(s)
                 /\ data' = Some(s)
                 /\ colors' = Some(BarColors(s))
            /\ pc' = "chart2"
            /\ error' = error
       ELSE /\ Raise("KeyError")
            /\ UNCHANGED <<data_sorted, data, colors>>
    /\ UNCHANGED <<envVars, memoVars, load_calls, prev_stopped, company_count_shown,
                   recommend_count, avg_price, max_price, max_ticker,
                   comparison_data, cards, display_df>>

\* main, lines 114-147: the price chart over a sorted copy of data
Chart1 ==
    /\ pc = "chart1"
    /\ IF HasCols(data[1], {"Price_USD", "Split_Recommendation", "Ticker"})
       THEN /\ \E s \in SortValues(data[1]) :
                 /\ data_sorted' = Some(s)
                 /\ colors' = Some(BarColors(s))
            /\ pc' = "chart2"
            /\ error' = error
       ELSE /\ Raise("KeyError")
            /\ UNCHANGED <<data_sorted, colors>>
    /\ UNCHANGED <<envVars, memoVars, load_calls, prev_stopped, data, company_count_shown,
                   recommend_count, avg_price, max_price, max_ticker,
                   comparison_data, cards, display_df>>

RowScenariosSwapped(row) ==
    << [Company |-> row.Company, Scenario |-> "Current", Price |-> row.Price_USD],
       [Company |-> row.Company, Scenario |-> "20:1 Split",
        Price |-> row.Price_After_20to1],
       [Company |-> row.Company, Scenario |-> "10:1 Split",
        Price |-> row.Price_After_10to1] >>

\* main, lines 156-160: the three rows one record contributes
RowScenarios(row) ==
    << [Company |-> row.Company, Scenario |-> "Current", Price |-> row.Price_USD],
       [Company |-> row.Company, Scenario |-> "10:1 Split",
        Price |-> row.Price_After_10to1],
       [Company |-> row.Company, Scenario |-> "20:1 Split",
        Price |-> row.Price_After_20to1] >>

\* main, lines 154-160: comparison_data, extended row by row in the order of data.iterrows()
RECURSIVE ComparisonData(_)
ComparisonData(rows) ==
    IF rows = <<>> THEN <<>>
    ELSE RowScenarios(Head(rows)) \o ComparisonData(Tail(rows))

\* main, lines 149-189: px.bar over an empty comp_df (no columns) raises ValueError
Chart2 ==
    /\ pc = "chart2"
    /\ IF /\ Len(data[1].rows) > 0
          /\ ~HasCols(data[1], {"Company", "Price_USD"} \cup DerivedColumns)
       THEN /\ Raise("KeyError")
            /\ comparison_data' = comparison_data
       ELSE IF Len(data[1].rows) = 0
       THEN /\ Raise("ValueError")
            /\ comparison_data' = Some(<<>>)
       ELSE /\ comparison_data' = Some(ComparisonData(data[1].rows))
            /\ pc' = "cards"
            /\ error' = error
    /\ UNCHANGED <<envVars, memoVars, load_calls, prev_stopped, data, company_count_shown,
                   recommend_count, avg_price, max_price, max_ticker,
                   data_sorted, colors, cards, display_df>>

\* main, lines 216-228: one card, in col1 for an even row label and col2 for an odd one
Card(idx, row) ==
    [column |-> IF idx % 2 = 0 THEN "col1" ELSE "col2",
     color |-> IF row.Split_Recommendation = "YES" THEN "#27ae60" ELSE "#e74c3c",
     recommendation_text |->
        IF row.Split_Recommendation = "YES" THEN "SPLIT: YES" ELSE "SPLIT: NO",
     Company |-> row.Company,
     Ticker |-> row.Ticker,
     price |-> Money2(row.Price_USD),
     pe |-> Fixed1(row.PE_Ratio),
     market_cap |-> Billions1(row.Market_Cap_Billions)]

\* main, lines 215-228
Cards ==
    /\ pc = "cards"
    /\ IF /\ Len(data[1].rows) > 0
          /\ ~HasCols(data[1], {"Split_Recommendation", "Company", "Ticker",
                                "Price_USD", "PE_Ratio", "Market_Cap_Billions"})
       THEN /\ Raise("KeyError")
            /\ cards' = cards
       ELSE /\ cards' = Some([i \in 1..Len(data[1].rows) |-> Card(i - 1, data[1].rows[i])])
            /\ pc' = "table"
            /\ error' = error
    /\ UNCHANGED <<envVars, memoVars, load_calls, prev_stopped, data, company_count_shown,
                   recommend_count, avg_price, max_price, max_ticker,
                   data_sorted, colors, comparison_data, display_df>>

currency_cols == {"Price_USD", "Price_After_10to1", "Price_After_20to1"}

\* main, lines 238-245: the formatted cell of column c
FormatCell(c, x) ==
    IF c \in currency_cols THEN Money2(x)
    ELSE IF c = "Market_Cap_Billions" THEN Billions1(x)
    ELSE IF c = "PE_Ratio" THEN Fixed1(x)
    ELSE IF c = "Dividend_Yield" THEN Percent2(x)
    ELSE [unit |-> "text", amount |-> x]

FormatFrame(frame) ==
    [columns |-> frame.columns,
     rows |-> [i \in 1..Len(frame.rows) |->
                 [c \in frame.columns |-> FormatCell(c, frame.rows[i][c])]]]

TableColumns ==
    currency_cols \cup {"Market_Cap_Billions", "PE_Ratio", "Dividend_Yield",
                        "Split_Recommendation"}

\* main, lines 234-256: display_df = data.copy(), formatted column by column
Table ==
    /\ pc = "table"
    /\ IF HasCols(data[1], TableColumns)
       THEN /\ display_df' = Some(FormatFrame(data[1]))
            /\ pc' = "done"
            /\ error' = error
       ELSE /\ Raise("KeyError")
            /\ display_df' = display_df
    /\ UNCHANGED <<envVars, memoVars, load_calls, prev_stopped, data, company_count_shown,
                   recommend_count, avg_price, max_price, max_ticker,
                   data_sorted, colors, comparison_data, cards>>

----------------------------------------------------------------------------
(* The environment of the script. *)

runVars == <<pc, error, load_calls, prev_stopped, data>>

\* The script reads the file and the cache only in load_data, the first step of
\* a run: a change of either is observed by the program only through the next
\* call of load_data, and is modelled as taking place right before that call.
BeforeLoad == pc = "load"

\* the file is created or rewritten outside the program
WriteSource ==
    /\ BeforeLoad
    /\ \E f \in Files :
          /\ file # Some(f)
          /\ file' = Some(f)
    /\ UNCHANGED <<memoVars, runVars, outVars>>

\* the file is removed outside the program
RemoveSource ==
    /\ BeforeLoad
    /\ file # None
    /\ file' = None
    /\ UNCHANGED <<memoVars, runVars, outVars>>

\* the explicit reload: Streamlit's "Clear cache" / load_data.clear()
ClearCache ==
    /\ BeforeLoad
    /\ cache # None
    /\ cache' = None
    /\ first_load' = None
    /\ UNCHANGED <<envVars, runVars, outVars>>

Next ==
    \/ StartRun
    \/ Load
    \/ Kpi1
    \/ Kpi2
    \/ Kpi3
    \/ Kpi4
    \/ Chart1
    \/ Chart2
    \/ Cards
    \/ Table
    \/ WriteSource
    \/ RemoveSource
    \/ ClearCache

Spec == Init /\ [][Next]_vars

----------------------------------------------------------------------------
(* Properties. *)

Loaded == data # None
Rows == data[1].rows

\* C1: the 'Companies Analyzed' value a run renders equals the number of
\* records of the loaded set, whatever that number is.
C1_CompanyCountIsSetSize ==
    company_count_shown # None => company_count_shown[1] = Len(Rows)

\* C2: for every record the 10:1 and 20:1 prices the run exposes are the record's
\* price divided by 10 and by 20, whatever the file's Price_After columns carry.
C2_DerivedFromPrice ==
    comparison_data # None =>
        \A i \in 1..Len(Rows) :
            /\ 10 * comparison_data[1][3 * i - 1].Price = Rows[i].Price_USD
            /\ 20 * comparison_data[1][3 * i].Price = Rows[i].Price_USD

\* out holds three rows per record of rows, in the order of rows, with scenarios
\* Current, 10:1 Split, 20:1 Split and the record's three prices
Grouped(rows, out) ==
    /\ Len(out) = 3 * Len(rows)
    /\ \A i \in 1..Len(rows) :
          /\ out[3 * i - 2] = [Company |-> rows[i].Company, Scenario |-> "Current",
                               Price |-> rows[i].Price_USD]
          /\ out[3 * i - 1] = [Company |-> rows[i].Company, Scenario |-> "10:1 Split",
                               Price |-> rows[i].Price_After_10to1]
          /\ out[3 * i] = [Company |-> rows[i].Company, Scenario |-> "20:1 Split",
                           Price |-> rows[i].Price_After_20to1]

\* C3: the scenario rows of a record sequence of length n (n = 0 included) are
\* 3n rows, rows 3i, 3i+1, 3i+2 those of the i-th record in input order with
\* scenarios Current, 10:1 Split, 20:1 Split and that record's three prices; the
\* rows a run has built are grouped by the loaded order, not by the sorted one.
C3_ScenarioRowsGrouped ==
    /\ comparison_data # None => Grouped(Rows, comparison_data[1])
    /\ (Loaded /\ HasCols(data[1], {"Company", "Price_USD"} \cup DerivedColumns))
          => Grouped(Rows, ComparisonData(Rows))

\* a run has built the scenario rows of a set whose sort by price changed the order
C3_Witness ==
    /\ comparison_data # None
    /\ data_sorted # None
    /\ Len(Rows) >= 2
    /\ data_sorted[1].rows # Rows

\* C4: for a non-empty set, max_price is the largest price_usd and max_ticker is
\* the ticker of the first record in input order whose price equals it.
C4_MaxPriceFirstTicker ==
    max_price # None =>
        /\ \A j \in 1..Len(Rows) : Rows[j].Price_USD <= max_price[1]
        /\ \E i \in 1..Len(Rows) :
              /\ Rows[i].Price_USD = max_price[1]
              /\ \A j \in 1..(i - 1) : Rows[j].Price_USD < max_price[1]
              /\ max_ticker = Some(Rows[i].Ticker)

\* the maximum has been computed over a set in which two records tie for it
C4_Witness ==
    /\ max_price # None
    /\ \E i, j \in 1..Len(Rows) :
          /\ i < j
          /\ Rows[i].Price_USD = max_price[1]
          /\ Rows[j].Price_USD = max_price[1]

\* C5: on an empty record set the summary fails with EmptyPortfolioError and no
\* summary value is emitted before the failure.
C5_EmptyFailsBeforeOutput ==
    (Loaded /\ Len(Rows) = 0) =>
        /\ company_count_shown = None
        /\ recommend_count = None
        /\ avg_price = None
        /\ max_price = None
        /\ pc = "crashed" => error = "EmptyPortfolioError"

\* C6: when the source lacks PE_Ratio the load itself fails, so no run holds a
\* loaded set without that column, and none of its aggregates or scenario rows
\* is produced.
C6_MissingColumnFailsAtLoad ==
    (Loaded /\ "PE_Ratio" \notin data[1].columns) =>
        /\ recommend_count = None
        /\ avg_price = None
        /\ max_price = None
        /\ comparison_data = None

NoOutput ==
    /\ data = None
    /\ company_count_shown = None
    /\ recommend_count = None
    /\ avg_price = None
    /\ max_price = None
    /\ max_ticker = None
    /\ data_sorted = None
    /\ colors = None
    /\ comparison_data = None
    /\ cards = None
    /\ display_df = None

\* C7 as stated: whenever load is called while the source does not exist, it
\* fails with the missing-source outcome and the run stops.
C7_MissingSourceStopsRun ==
    [][(pc = "load" /\ pc' # "load" /\ file = None)
          => (pc' = "stopped" /\ error' = "FileNotFoundError")]_vars

\* C7 as amended: when load is called while the source does not exist and no
\* earlier load is memoized, it fails with the missing-source outcome and the run
\* stops there: a stopped run has called load once, has computed no summary
\* value, scenario row or per-company output, and takes no further step (the
\* next step is the start of another run).
C7_MissingSourceStopsRunUnmemoized ==
    /\ [][(pc = "load" /\ pc' # "load" /\ file = None /\ first_load = None)
             => (pc' = "stopped" /\ error' = "FileNotFoundError")]_vars
    /\ [](pc = "stopped" => (error = "FileNotFoundError" /\ load_calls = 1 /\ NoOutput))
    /\ [][pc = "stopped" => (pc' = "load" /\ load_calls' = 0)]_vars

\* a run has stopped on a missing source
C7_Witness ==
    /\ pc = "stopped"
    /\ file = None
    /\ error = "FileNotFoundError"

\* C8: the number of recommended records a run reports is at most the company
\* count the same run reports.
C8_RecommendedAtMostCount ==
    (recommend_count # None /\ company_count_shown # None)
        => recommend_count[1] <= company_count_shown[1]

\* C9: once loaded, the record set of a run (records, field values, order) is
\* changed by no step of that run, and no step after the load changes the
\* memoized set.
C9_DataUnchangedByRendering ==
    /\ [][(Loaded /\ pc' # "load") => data' = data]_vars
    /\ [][(pc # "load" /\ pc' # "load") => cache' = cache]_vars

\* a run has finished: the sort by price reordered the rows and the table was formatted
C9_Witness ==
    /\ pc = "done"
    /\ display_df # None
    /\ data_sorted # None
    /\ data_sorted[1].rows # Rows
    /\ Len(display_df[1].rows) = Len(Rows)

\* C10: once a load has succeeded, every later load returns the record set of
\* that first successful load, until the cache is explicitly cleared; a load
\* that fails on a missing source memoizes nothing, and a load made with nothing
\* memoized while the source exists reads the source and succeeds.
C10_LoadsMemoized ==
    /\ [][(pc = "load" /\ pc' # "load" /\ first_load # None)
             => (pc' = "kpi1" /\ data' = first_load)]_vars
    /\ [][(cache # None /\ cache' # cache) => ClearCache]_vars
    /\ [][(pc = "load" /\ pc' = "stopped") => (cache' = None /\ first_load' = None)]_vars
    /\ [][(pc = "load" /\ pc' # "load" /\ first_load = None /\ file # None)
             => (pc' = "kpi1" /\ data' = Some(ReadCsv(file[1])))]_vars

\* the run before stopped on a missing source; the source has appeared and this
\* run's load has read it
C10_Witness ==
    /\ prev_stopped
    /\ pc = "kpi1"
    /\ Loaded
    /\ data = file
    /\ first_load = data

====
